---- MODULE Spec2Model ----
(***************************************************************************)
(* A model of the password auditor (auditor.py, utils.py).                 *)
(*                                                                         *)
(* A Python str is a sequence of one-character strings.  A float that      *)
(* holds an entropy is a fixed-point number of micro-bits (1/1000000 bit); *)
(* a float that holds a guess count, a rate or a number of seconds is      *)
(* kept by its base-2 logarithm in micro-bits, together with its kind      *)
(* (finite positive, zero, negative, infinite, nan), so that 2^x and x/y   *)
(* are exact on the kinds and on the double-precision range.               *)
(***************************************************************************)
EXTENDS Integers, Sequences, FiniteSets

VARIABLES pc, source, mode, wordlist, entries, report, fn, input, output

vars == <<pc, source, mode, wordlist, entries, report, fn, input, output>>

(***************************************************************************)
(* Characters and the str methods used by the program.                     *)
(***************************************************************************)
LowerSeq == <<"a","b","c","d","e","f","g","h","i","j","k","l","m",
              "n","o","p","q","r","s","t","u","v","w","x","y","z">>

UpperSeq == <<"A","B","C","D","E","F","G","H","I","J","K","L","M",
              "N","O","P","Q","R","S","T","U","V","W","X","Y","Z">>

DigitSeq == <<"0","1","2","3","4","5","6","7","8","9">>

Range(s) == {s[i] : i \in 1..Len(s)}

\* [a-z], [A-Z], [0-9] of the re module: the ASCII ranges only.
AsciiLower == Range(LowerSeq)
AsciiUpper == Range(UpperSeq)
AsciiDigit == Range(DigitSeq)

\* Letters outside ASCII, which the str methods classify and the regular
\* expressions of utils.py do not.
UnicodeLower == {"é"}
UnicodeUpper == {"É"}

\* str.islower, str.isupper, str.isdigit, str.isalnum on one character.
islower(c) == c \in AsciiLower \cup UnicodeLower
isupper(c) == c \in AsciiUpper \cup UnicodeUpper
isdigit(c) == c \in AsciiDigit
isalnum(c) == islower(c) \/ isupper(c) \/ isdigit(c)

IndexOf(s, c) == CHOOSE i \in 1..Len(s) : s[i] = c

\* str.lower on one character, and on a string.
LowerChar(c) ==
    IF c \in AsciiUpper THEN LowerSeq[IndexOf(UpperSeq, c)]
    ELSE IF c = "É" THEN "é"
    ELSE c

lower(s) == [i \in 1..Len(s) |-> LowerChar(s[i])]

\* s[::-1]
Reverse(s) == [i \in 1..Len(s) |-> s[Len(s) + 1 - i]]

\* `sub in s` on strings: sub occurs in s as a contiguous substring.
Contains(s, sub) ==
    \E k \in 0..(Len(s) - Len(sub)) : SubSeq(s, k + 1, k + Len(sub)) = sub

\* str.strip: leading and trailing whitespace removed.
RECURSIVE lstrip(_)
lstrip(s) == IF s # <<>> /\ Head(s) = " " THEN lstrip(Tail(s)) ELSE s

strip(s) == Reverse(lstrip(Reverse(lstrip(s))))

(***************************************************************************)
(* utils.py                                                                *)
(***************************************************************************)
\* math.log2 on the pool sizes the four classes can add up to, in micro-bits
\* (rounded to the nearest micro-bit; log2(32) is exactly 5).
Log2Micro(n) ==
    CASE n = 10 -> 3321928
      [] n = 26 -> 4700440
      [] n = 32 -> 5000000
      [] n = 36 -> 5169925
      [] n = 42 -> 5392317
      [] n = 52 -> 5700440
      [] n = 58 -> 5857981
      [] n = 62 -> 5954196
      [] n = 68 -> 6087463
      [] n = 84 -> 6392317
      [] n = 94 -> 6554589

\* re.search(r"[a-z]", password) and the three others.
SearchLower(password)  == \E i \in 1..Len(password) : password[i] \in AsciiLower
SearchUpper(password)  == \E i \in 1..Len(password) : password[i] \in AsciiUpper
SearchDigit(password)  == \E i \in 1..Len(password) : password[i] \in AsciiDigit
SearchSymbol(password) ==
    \E i \in 1..Len(password) :
        password[i] \notin AsciiLower \cup AsciiUpper \cup AsciiDigit

\* Pool with the symbol class left out: the fault of dropping lines 20-21.
PoolNoSymbols(password) ==
    LET s1 == IF SearchLower(password) THEN 26 ELSE 0
        s2 == IF SearchUpper(password) THEN s1 + 26 ELSE s1
        s3 == IF SearchDigit(password) THEN s2 + 10 ELSE s2
    IN  s3

\* The pool `sets` after the four `sets += ...` statements.
Pool(password) ==
    LET s1 == IF SearchLower(password) THEN 26 ELSE 0
        s2 == IF SearchUpper(password) THEN s1 + 26 ELSE s1
        s3 == IF SearchDigit(password) THEN s2 + 10 ELSE s2
        s4 == IF SearchSymbol(password) THEN s3 + 32 ELSE s3
    IN  s4

\* estimate_entropy, in micro-bits.
estimate_entropy(password) ==
    IF password = <<>> THEN 0
    ELSE LET sets == Pool(password)
         IN  IF sets > 0 THEN Len(password) * Log2Micro(sets) ELSE 0

\* The three COMMON_PATTERNS: ^\d+$, (?i)password, (?i)qwerty.
COMMON_PATTERNS ==
    << <<"p","a","s","s","w","o","r","d">>, <<"q","w","e","r","t","y">> >>

contains_common_pattern(password) ==
    \/ password # <<>> /\ \A i \in 1..Len(password) : isdigit(password[i])
    \/ \E k \in 1..Len(COMMON_PATTERNS) :
           Contains(lower(password), COMMON_PATTERNS[k])

(***************************************************************************)
(* auditor.py: is_sequential                                               *)
(***************************************************************************)
\* One size of the loop `for i in range(length - size + 1)`, from window i
\* (counted from 1) on, returning at the first window that matches.
RECURSIVE ScanWindows(_, _, _)
ScanWindows(pw_low, size, i) ==
    IF i > Len(pw_low) - size + 1 THEN FALSE
    ELSE LET chunk == SubSeq(pw_low, i, i + size - 1)
         IN  IF Contains(LowerSeq, chunk) \/ Contains(LowerSeq, Reverse(chunk))
             THEN TRUE
             ELSE IF Contains(DigitSeq, chunk) \/ Contains(DigitSeq, Reverse(chunk))
             THEN TRUE
             ELSE ScanWindows(pw_low, size, i + 1)

\* is_sequential without the reversed windows: the fault of dropping
\* `chunk[::-1] in ...` from lines 112 and 114.
is_sequential_forward_only(pw) ==
    \E size \in {3, 4} : \E i \in 1..(Len(pw) - size + 1) :
        \/ Contains(LowerSeq, SubSeq(lower(pw), i, i + size - 1))
        \/ Contains(DigitSeq, SubSeq(lower(pw), i, i + size - 1))

is_sequential(pw) ==
    LET pw_low == lower(pw)
    IN  IF ScanWindows(pw_low, 4, 1) THEN TRUE ELSE ScanWindows(pw_low, 3, 1)

(***************************************************************************)
(* auditor.py: crack time helpers                                          *)
(*                                                                         *)
(* seconds_to_readable takes its argument as a record: [k |-> "inf"],      *)
(* [k |-> "nan"], or [k |-> "num", neg, whole, frac] for the finite value  *)
(* (-1)^neg * (whole + frac / 1000).  It returns [k |-> "str", v |-> the   *)
(* string] or [k |-> "raise", exc |-> the exception that leaves it].       *)
(***************************************************************************)
MIN  == 60
HOUR == 60 * MIN
DAY  == 24 * HOUR
YEAR == 365 * DAY

\* str(n) for a natural number n: what f"{n}" renders.
RECURSIVE Decimal(_)
Decimal(n) ==
    IF n < 10 THEN <<DigitSeq[n + 1]>>
    ELSE Decimal(n \div 10) \o <<DigitSeq[(n % 10) + 1]>>

\* f"{sec:.3f}" for a value given in whole seconds and milliseconds.
Format3f(sec) ==
    (IF sec.neg THEN <<"-">> ELSE <<>>)
        \o Decimal(sec.whole) \o <<".">>
        \o <<DigitSeq[(sec.frac \div 100) + 1],
             DigitSeq[((sec.frac \div 10) % 10) + 1],
             DigitSeq[(sec.frac % 10) + 1]>>

\* " ".join(parts)
RECURSIVE Join(_)
Join(parts) ==
    IF parts = <<>> THEN <<>>
    ELSE IF Len(parts) = 1 THEN parts[1]
    ELSE parts[1] \o <<" ">> \o Join(Tail(parts))

\* Render with the seconds appended whatever their value: the fault of
\* dropping the condition of line 66.
RenderAlwaysSeconds(s0) ==
    LET years   == s0 \div YEAR
        s1      == s0 % YEAR
        days    == s1 \div DAY
        s2      == s1 % DAY
        hours   == s2 \div HOUR
        s3      == s2 % HOUR
        minutes == s3 \div MIN
        seconds == s3 % MIN
        p1 == IF years # 0 THEN <<Decimal(years) \o <<"y">>>> ELSE <<>>
        p2 == IF days # 0 THEN Append(p1, Decimal(days) \o <<"d">>) ELSE p1
        p3 == IF hours # 0 THEN Append(p2, Decimal(hours) \o <<"h">>) ELSE p2
        p4 == IF minutes # 0 THEN Append(p3, Decimal(minutes) \o <<"m">>) ELSE p3
        p5 == Append(p4, Decimal(seconds) \o <<"s">>)
    IN  Join(p5)

\* The statements after `s = int(sec)`: the components and the parts list.
Render(s0) ==
    LET years   == s0 \div YEAR
        s1      == s0 % YEAR
        days    == s1 \div DAY
        s2      == s1 % DAY
        hours   == s2 \div HOUR
        s3      == s2 % HOUR
        minutes == s3 \div MIN
        seconds == s3 % MIN
        p1 == IF years # 0 THEN <<Decimal(years) \o <<"y">>>> ELSE <<>>
        p2 == IF days # 0 THEN Append(p1, Decimal(days) \o <<"d">>) ELSE p1
        p3 == IF hours # 0 THEN Append(p2, Decimal(hours) \o <<"h">>) ELSE p2
        p4 == IF minutes # 0 THEN Append(p3, Decimal(minutes) \o <<"m">>) ELSE p3
        p5 == IF seconds # 0 \/ p4 = <<>>
              THEN Append(p4, Decimal(seconds) \o <<"s">>) ELSE p4
    IN  Join(p5)

\* The one character U+221E, the infinity sign.
INFINITY == "U+221E"

seconds_to_readable(sec) ==
    IF sec.k = "inf" THEN [k |-> "str", v |-> <<INFINITY>>]
    ELSE IF sec.k = "nan"
         \* nan == inf and nan < 1 are both false; int(nan) raises.
         THEN [k |-> "raise", exc |-> "ValueError"]
    ELSE IF sec.neg \/ sec.whole < 1
         THEN [k |-> "str", v |-> Format3f(sec) \o <<" ", "s">>]
    ELSE [k |-> "str", v |-> Render(sec.whole)]

(***************************************************************************)
(* estimate_crack_time_seconds.  entropy_bits is [k |-> "num", v |-> the   *)
(* micro-bits] or [k |-> "inf"].  A guess count, a rate and a time are     *)
(* [k |-> "fin", lg |-> log2 of the value in micro-bits] when finite and   *)
(* positive, and else [k |-> "zero"], [k |-> "neg"], [k |-> "inf"] or      *)
(* [k |-> "nan"].                                                          *)
(***************************************************************************)
Inf  == [k |-> "inf"]
Zero == [k |-> "zero"]

\* A double is finite below 2^1024 and positive from 2^-1074 on.
DoubleMaxExp == 1024
DoubleMinExp == -1074
Micro == 1000000

\* log2(1e308) in micro-bits: the ceiling of line 80.
Log2Ceiling == 1023153853

\* math.pow(2.0, float(entropy_bits)): the value, or the OverflowError it
\* raises when the finite result is out of range.
MathPow2(entropy_bits) ==
    IF entropy_bits.k = "inf" THEN Inf
    ELSE IF entropy_bits.v >= DoubleMaxExp * Micro
         THEN [k |-> "raise", exc |-> "OverflowError"]
    ELSE IF entropy_bits.v < DoubleMinExp * Micro THEN Zero
    ELSE [k |-> "fin", lg |-> entropy_bits.v]

\* possibilities / float(guesses_per_second) for finite positive
\* possibilities and guesses_per_second > 0: float division overflows to inf
\* and underflows to 0.0 without raising.
FloatDiv(possibilities, rate) ==
    IF rate.k = "inf" THEN Zero
    ELSE LET lg == possibilities.lg - rate.lg
         IN  IF lg >= DoubleMaxExp * Micro THEN Inf
             ELSE IF lg < DoubleMinExp * Micro THEN Zero
             ELSE [k |-> "fin", lg |-> lg]

\* guesses_per_second > 0
RatePositive(rate) == rate.k \in {"fin", "inf"}

\* estimate_crack_time_seconds without its except clauses: the OverflowError
\* of math.pow leaves the function.
crack_time_no_handler(entropy_bits, guesses_per_second) ==
    LET possibilities == MathPow2(entropy_bits)
    IN  IF possibilities.k = "raise" THEN possibilities
        ELSE IF possibilities.k = "inf" THEN Inf
        ELSE IF possibilities.k = "fin" /\ possibilities.lg > Log2Ceiling THEN Inf
        ELSE IF RatePositive(guesses_per_second)
             THEN FloatDiv(possibilities, guesses_per_second)
        ELSE Inf

estimate_crack_time_seconds(entropy_bits, guesses_per_second) ==
    LET possibilities == MathPow2(entropy_bits)
    IN  IF possibilities.k = "raise" THEN Inf            \* except OverflowError
        ELSE IF possibilities.k = "inf" THEN Inf
        ELSE IF possibilities.k = "fin" /\ possibilities.lg > Log2Ceiling THEN Inf
        ELSE IF RatePositive(guesses_per_second)
             THEN FloatDiv(possibilities, guesses_per_second)
        ELSE Inf

(***************************************************************************)
(* auditor.py: estimate_crack_times                                        *)
(***************************************************************************)
\* log2(10) in micro-bits: a rate of 10^n guesses per second has the
\* logarithm n * Log2Of10.
Log2Of10 == 3321928

\* ATTACKER_PROFILES, in declaration order; the rate is 10^exp10.
ATTACKER_PROFILES ==
    << [name |-> "online_low",  exp10 |-> 1],
       [name |-> "online_high", exp10 |-> 2],
       [name |-> "single_gpu",  exp10 |-> 7],
       [name |-> "gpu_rig",     exp10 |-> 9],
       [name |-> "asic_farm",   exp10 |-> 10] >>

ProfileRate(profile) == [k |-> "fin", lg |-> profile.exp10 * Log2Of10]

\* The branch of seconds_to_readable a time given by its logarithm takes:
\* the infinity sign, the fractional rendering (sec < 1) or the units.
ReadableBranch(sec) ==
    IF sec.k = "inf" THEN "infinity"
    ELSE IF sec.k = "zero" \/ sec.lg < 0 THEN "fraction"
    ELSE "units"

estimate_crack_times(entropy_bits) ==
    [i \in 1..Len(ATTACKER_PROFILES) |->
        LET rate == ATTACKER_PROFILES[i]
            sec  == estimate_crack_time_seconds(entropy_bits, ProfileRate(rate))
        IN  [name    |-> rate.name,
             seconds |-> sec,
             display |-> ReadableBranch(sec),
             rate    |-> rate.exp10]]

(***************************************************************************)
(* auditor.py: load_wordlist                                               *)
(*                                                                         *)
(* The wordlist path is [k |-> "absent"], [k |-> "unreadable"] (it exists  *)
(* and read_text raises OSError: a directory, no permission),              *)
(* [k |-> "undecodable"] (its bytes are not UTF-8: read_text raises        *)
(* UnicodeDecodeError) or [k |-> "file", lines |-> its lines].             *)
(***************************************************************************)
load_wordlist(path) ==
    IF path.k = "absent" THEN [k |-> "set", v |-> {}]
    ELSE IF path.k = "unreadable"
         THEN [k |-> "raise", exc |-> "OSError"]
    ELSE IF path.k = "undecodable"
         THEN [k |-> "raise", exc |-> "UnicodeDecodeError"]
    ELSE [k |-> "set",
          v |-> {lower(strip(path.lines[i])) :
                    i \in {j \in 1..Len(path.lines) : strip(path.lines[j]) # <<>>}}]

(***************************************************************************)
(* auditor.py: analyze_password                                            *)
(***************************************************************************)
KEYBOARD_PATTERNS ==
    << <<"q","w","e","r","t","y">>, <<"a","s","d","f">>, <<"z","x","c","v">>,
       <<"1","2","3","4","5">>, <<"p","a","s","s","w","o","r","d">>,
       <<"a","d","m","i","n">>, <<"l","e","t","m","e","i","n">> >>

\* round(ent, 2), in hundredths of a bit.
Round2(ent) == (ent + 5000) \div 10000

\* The thresholds of the strength label and of the recommendations.
WeakLength    == 8
WeakBits      == 28
MediumBits    == 50
ShortLength   == 12
DiversityBits == 40

REC_LENGTH    == "Increase length to at least 12 characters."
REC_DIVERSITY == "Increase character diversity to raise entropy (mix upper/lower/digits/symbols)."
REC_COMMON    == "Avoid common passwords (in wordlists)."
REC_KEYBOARD  == "Avoid keyboard patterns (e.g. 'qwerty', '12345')."
REC_SEQUENCE  == "Avoid sequential characters (e.g. 'abcd', '1234')."
REC_SYMBOL    == "Consider adding at least one symbol to improve strength."

\* Strength with the keyboard pattern flag among the Weak conditions: the
\* fault of a label that reads a pattern flag.
StrengthFromPatterns(checks, ent) ==
    IF \/ checks.length < WeakLength
       \/ checks.is_common
       \/ checks.keyboard_pattern
       \/ ent < WeakBits * Micro
    THEN "Weak"
    ELSE IF ent < MediumBits * Micro THEN "Medium"
    ELSE "Strong"

\* The strength label of lines 137-142.
Strength(checks, ent) ==
    IF checks.length < WeakLength \/ checks.is_common \/ ent < WeakBits * Micro
    THEN "Weak"
    ELSE IF ent < MediumBits * Micro THEN "Medium"
    ELSE "Strong"

\* Recommendations with the symbol check made first: the fault of a list out
\* of its order.
RecommendationsSymbolFirst(checks, ent) ==
    LET r0 == IF ~checks.has_symbol THEN <<REC_SYMBOL>> ELSE <<>>
        r1 == IF checks.length < ShortLength THEN Append(r0, REC_LENGTH) ELSE r0
        r2 == IF ent < DiversityBits * Micro THEN Append(r1, REC_DIVERSITY) ELSE r1
        r3 == IF checks.is_common THEN Append(r2, REC_COMMON) ELSE r2
        r4 == IF checks.keyboard_pattern THEN Append(r3, REC_KEYBOARD) ELSE r3
        r5 == IF checks.sequential THEN Append(r4, REC_SEQUENCE) ELSE r4
    IN  r5

\* The recommendations list of lines 145-157.
Recommendations(checks, ent) ==
    LET r1 == IF checks.length < ShortLength THEN <<REC_LENGTH>> ELSE <<>>
        r2 == IF ent < DiversityBits * Micro THEN Append(r1, REC_DIVERSITY) ELSE r1
        r3 == IF checks.is_common THEN Append(r2, REC_COMMON) ELSE r2
        r4 == IF checks.keyboard_pattern THEN Append(r3, REC_KEYBOARD) ELSE r3
        r5 == IF checks.sequential THEN Append(r4, REC_SEQUENCE) ELSE r4
        r6 == IF ~checks.has_symbol THEN Append(r5, REC_SYMBOL) ELSE r5
    IN  r6

analyze_password(pw, words) ==
    LET ent      == estimate_entropy(pw)
        pw_lower == lower(pw)
        checks   ==
            [length           |-> Len(pw),
             entropy_bits     |-> Round2(ent),
             is_common        |-> pw_lower \in words,
             common_pattern   |-> contains_common_pattern(pw),
             keyboard_pattern |-> \E k \in 1..Len(KEYBOARD_PATTERNS) :
                                      Contains(pw_lower, KEYBOARD_PATTERNS[k]),
             sequential       |-> is_sequential(pw),
             has_upper        |-> \E i \in 1..Len(pw) : isupper(pw[i]),
             has_lower        |-> \E i \in 1..Len(pw) : islower(pw[i]),
             has_digit        |-> \E i \in 1..Len(pw) : isdigit(pw[i]),
             has_symbol       |-> \E i \in 1..Len(pw) : ~isalnum(pw[i])]
    IN  [password         |-> pw,
         length           |-> checks.length,
         entropy_bits     |-> checks.entropy_bits,
         is_common        |-> checks.is_common,
         common_pattern   |-> checks.common_pattern,
         keyboard_pattern |-> checks.keyboard_pattern,
         sequential       |-> checks.sequential,
         has_upper        |-> checks.has_upper,
         has_lower        |-> checks.has_lower,
         has_digit        |-> checks.has_digit,
         has_symbol       |-> checks.has_symbol,
         strength         |-> Strength(checks, ent),
         recommendations  |-> Recommendations(checks, ent),
         crack_times      |-> estimate_crack_times([k |-> "num", v |-> ent])]

(***************************************************************************)
(* auditor.py: format_report.  The report is kept as its fields: per entry *)
(* the masked password and the lines written for it, and the three         *)
(* numbers of the summary.                                                 *)
(***************************************************************************)
Masked(pw) ==
    IF Len(pw) > 4
    THEN SubSeq(pw, 1, 2) \o <<"*","*","*">> \o SubSeq(pw, Len(pw) - 1, Len(pw))
    ELSE IF Len(pw) > 2
    THEN <<pw[1]>> \o <<"*","*","*">> \o <<pw[Len(pw)]>>
    ELSE <<"*","*","*">>

\* weak_count after the loop over the entries.
RECURSIVE WeakCount(_)
WeakCount(es) ==
    IF es = <<>> THEN 0
    ELSE (IF Head(es).strength = "Weak" THEN 1 ELSE 0) + WeakCount(Tail(es))

format_report(es) ==
    [k       |-> "report",
     entries |-> [i \in 1..Len(es) |->
                    [masked          |-> Masked(es[i].password),
                     length          |-> es[i].length,
                     entropy_bits    |-> es[i].entropy_bits,
                     strength        |-> es[i].strength,
                     is_common       |-> es[i].is_common,
                     recommendations |-> es[i].recommendations]],
     total   |-> Len(es),
     weak    |-> WeakCount(es),
     strong  |-> Len(es) - WeakCount(es)]

(***************************************************************************)
(* Inputs.                                                                 *)
(***************************************************************************)
\* The most passwords one run analyzes (the lines of the input file).
MaxEntries == 2

\* The passwords given to the program.
Passwords ==
    { <<>>,
      <<"a","b","c","d","1","2","3","4">>,
      <<"x","k","2","p","9","q">>,
      <<"p","a","s","s","w","o","r","d">>,
      <<"P","a","s","s","w","o","r","d">>,
      <<"q","w","e","r","t","y","u","i">>,
      <<"z","k","q","m","v","b","x","p">>,
      <<"T","r","0","u","b","4","d","o","r">>,
      <<"1","2","3","4","5">>,
      <<"a","B","3","!">>,
      <<"é">>,
      <<"é","é","é","é","é","é","é","é">>,
      <<"!","!","!","!","!","!","!","!">>,
      <<"!","!","!","!","!","!","!","!","!","!">>,
      <<"X","k","!","9","m","Q","#","2","v","L","$","7">> }

\* The lines of the input file: a password, bare or padded, or a blank line.
FileLines ==
    Passwords \cup { <<" ", " ">>, <<" ", "x", "k", "2", "p", "9", "q", " ">> }

\* The states of wordlists/common_passwords.txt.
Sources ==
    { [k |-> "absent"],
      [k |-> "unreadable"],
      [k |-> "undecodable"],
      [k |-> "file", lines |-> <<>>],
      [k |-> "file",
       lines |-> << <<" ","P","a","s","s","w","o","r","d"," ">>,
                    <<" ">>,
                    <<"l","e","t","m","e","i","n">>,
                    <<"1","2","3","4","5">> >>] }

None == [k |-> "none"]

(***************************************************************************)
(* auditor.py: main.  pc is the place in main: "load" before line 258,     *)
(* "analyze" at lines 261-274, "report" at line 280, "done" after the      *)
(* return, "crashed" when an exception left main.                          *)
(***************************************************************************)
Init ==
    /\ pc = "load"
    /\ source \in Sources
    /\ mode \in {"password", "input_file", "no_input_file", "interactive"}
    /\ wordlist = {}
    /\ entries = <<>>
    /\ report = None
    /\ fn = "none"
    /\ input = None
    /\ output = None

\* wordlist = load_wordlist(COMMON_WORDLIST)
LoadWordlist ==
    /\ pc = "load"
    /\ LET loaded == load_wordlist(source)
       IN  IF loaded.k = "raise"
           THEN pc' = "crashed" /\ wordlist' = wordlist
           ELSE pc' = "analyze" /\ wordlist' = loaded.v
    /\ UNCHANGED <<source, mode, entries, report, fn, input, output>>

\* --password: one entry, of a non-empty password.
AnalyzeArgument ==
    /\ pc = "analyze"
    /\ mode = "password"
    /\ \E pw \in Passwords \ {<<>>} :
           entries' = Append(entries, analyze_password(pw, wordlist))
    /\ pc' = "report"
    /\ UNCHANGED <<source, mode, wordlist, report, fn, input, output>>

\* --input-file, the file missing: a message and return.
InputFileNotFound ==
    /\ pc = "analyze"
    /\ mode = "no_input_file"
    /\ pc' = "done"
    /\ UNCHANGED <<source, mode, wordlist, entries, report, fn, input, output>>

\* --input-file: one line of the loop, analyzed stripped when not blank.
AnalyzeLine ==
    /\ pc = "analyze"
    /\ mode = "input_file"
    /\ Len(entries) < MaxEntries
    /\ \E line \in FileLines :
           IF strip(line) # <<>>
           THEN entries' = Append(entries, analyze_password(strip(line), wordlist))
           ELSE entries' = entries
    /\ UNCHANGED <<pc, source, mode, wordlist, report, fn, input, output>>

\* --input-file: the loop ends.
EndOfFile ==
    /\ pc = "analyze"
    /\ mode = "input_file"
    /\ pc' = "report"
    /\ UNCHANGED <<source, mode, wordlist, entries, report, fn, input, output>>

\* No argument: the password typed at the prompt, possibly empty.
AnalyzePrompt ==
    /\ pc = "analyze"
    /\ mode = "interactive"
    /\ \E pw \in Passwords :
           entries' = Append(entries, analyze_password(pw, wordlist))
    /\ pc' = "report"
    /\ UNCHANGED <<source, mode, wordlist, report, fn, input, output>>

\* report = format_report(entries), then written or printed
\* (pretty_console_output before it only prints the entries).
FormatReport ==
    /\ pc = "report"
    /\ report' = format_report(entries)
    /\ pc' = "done"
    /\ UNCHANGED <<source, mode, wordlist, entries, fn, input, output>>

Next ==
    \/ LoadWordlist
    \/ AnalyzeArgument
    \/ InputFileNotFound
    \/ AnalyzeLine
    \/ EndOfFile
    \/ AnalyzePrompt
    \/ FormatReport

Spec == Init /\ [][Next]_vars

(***************************************************************************)
(* The functions on strings, each applied to one input.                    *)
(***************************************************************************)
\* The longest string drawn from TextAlphabet.
MaxLen == 4

TextAlphabet == {"a", "b", "c", "d", "C", "1", "2", "3", "!", "é"}

Strings == UNION {[1..n -> TextAlphabet] : n \in 0..MaxLen} \cup Passwords

InitText ==
    /\ pc = "none"
    /\ source = [k |-> "absent"]
    /\ mode = "none"
    /\ wordlist = {}
    /\ entries = <<>>
    /\ report = None
    /\ fn = "none"
    /\ input \in {[k |-> "str", s |-> s] : s \in Strings}
    /\ output = None

CallEstimateEntropy ==
    /\ fn = "none"
    /\ input.k = "str"
    /\ fn' = "estimate_entropy"
    /\ output' = [k |-> "float", v |-> estimate_entropy(input.s)]
    /\ UNCHANGED <<pc, source, mode, wordlist, entries, report, input>>

CallIsSequential ==
    /\ fn = "none"
    /\ input.k = "str"
    /\ fn' = "is_sequential"
    /\ output' = [k |-> "bool", v |-> is_sequential(input.s)]
    /\ UNCHANGED <<pc, source, mode, wordlist, entries, report, input>>

NextText == CallEstimateEntropy \/ CallIsSequential

SpecText == InitText /\ [][NextText]_vars

(***************************************************************************)
(* seconds_to_readable applied to one input.                               *)
(***************************************************************************)
\* The most whole years in an input.
MaxYears == 2

SecInputs ==
    {[k |-> "inf"], [k |-> "nan"],
     [k |-> "num", neg |-> TRUE, whole |-> 1, frac |-> 500],
     [k |-> "num", neg |-> TRUE, whole |-> 0, frac |-> 3]}
    \cup
    {[k |-> "num", neg |-> FALSE,
      whole |-> y * YEAR + d * DAY + h * HOUR + m * MIN + s, frac |-> f] :
        y \in 0..MaxYears, d \in {0, 1, 364}, h \in {0, 1, 23},
        m \in {0, 1, 59}, s \in {0, 1, 30, 59}, f \in {0, 3, 500}}

InitReadable ==
    /\ pc = "none"
    /\ source = [k |-> "absent"]
    /\ mode = "none"
    /\ wordlist = {}
    /\ entries = <<>>
    /\ report = None
    /\ fn = "none"
    /\ input \in SecInputs
    /\ output = None

CallSecondsToReadable ==
    /\ fn = "none"
    /\ input.k \in {"inf", "nan", "num"}
    /\ fn' = "seconds_to_readable"
    /\ output' = seconds_to_readable(input)
    /\ UNCHANGED <<pc, source, mode, wordlist, entries, report, input>>

NextReadable == CallSecondsToReadable

SpecReadable == InitReadable /\ [][NextReadable]_vars

(***************************************************************************)
(* estimate_crack_time_seconds applied to two entropies at one rate.       *)
(***************************************************************************)
\* The entropies n * 32 bits, n up to MaxEntropyStep, are drawn.
MaxEntropyStep == 34

EntropyInputs ==
    {[k |-> "num", v |-> 32 * Micro * n] : n \in 0..MaxEntropyStep}
    \cup {[k |-> "num", v |-> v] :
            v \in {20 * Micro, Log2Ceiling, 1023500000, 1023999999}}
    \cup {[k |-> "inf"]}

RateInputs ==
    {ProfileRate(ATTACKER_PROFILES[i]) : i \in 1..Len(ATTACKER_PROFILES)}
    \cup {[k |-> "zero"], [k |-> "neg"], [k |-> "nan"], [k |-> "inf"],
          [k |-> "fin", lg |-> -10 * Micro],
          [k |-> "fin", lg |-> -900 * Micro],
          [k |-> "fin", lg |-> 1000 * Micro]}

InitCrack ==
    /\ pc = "none"
    /\ source = [k |-> "absent"]
    /\ mode = "none"
    /\ wordlist = {}
    /\ entries = <<>>
    /\ report = None
    /\ fn = "none"
    /\ input \in {[k |-> "crack", entropy_bits |-> b, other_bits |-> b2, rate |-> r] :
                    b \in EntropyInputs, b2 \in EntropyInputs, r \in RateInputs}
    /\ output = None

CallEstimateCrackTime ==
    /\ fn = "none"
    /\ input.k = "crack"
    /\ fn' = "estimate_crack_time_seconds"
    /\ output' = [k       |-> "times",
                  seconds |-> estimate_crack_time_seconds(input.entropy_bits, input.rate),
                  other   |-> estimate_crack_time_seconds(input.other_bits, input.rate)]
    /\ UNCHANGED <<pc, source, mode, wordlist, entries, report, input>>

NextCrack == CallEstimateCrackTime

SpecCrack == InitCrack /\ [][NextCrack]_vars

(***************************************************************************)
(* Properties of main (Spec).                                              *)
(***************************************************************************)
Entry(i) == entries[i]

Indices == 1..Len(entries)

\* The label the three values give: entropy in hundredths of a bit, as the
\* result holds it.
LabelOf(length, entropy_bits, is_common) ==
    IF length < 8 \/ is_common \/ entropy_bits < 2800 THEN "Weak"
    ELSE IF entropy_bits < 5000 THEN "Medium"
    ELSE "Strong"

\* C1: the strength label of every analysis result is Weak exactly when
\* length < 8 or is_common or entropy < 28, Medium exactly when it is not Weak
\* and entropy < 50, Strong otherwise; two results that agree on
\* (length, entropy, is_common) carry the same label whatever their pattern
\* and character-class flags are.
C1_LabelFromThreeValues ==
    /\ \A i \in Indices :
           Entry(i).strength =
               LabelOf(Entry(i).length, Entry(i).entropy_bits, Entry(i).is_common)
    /\ \A i \in Indices : \A j \in Indices :
           (/\ Entry(i).length = Entry(j).length
            /\ Entry(i).entropy_bits = Entry(j).entropy_bits
            /\ Entry(i).is_common = Entry(j).is_common)
           => Entry(i).strength = Entry(j).strength

\* Two analyzed passwords agree on the three values, differ in their pattern
\* flags and are both Medium.
C1_Witness ==
    /\ Len(entries) = 2
    /\ Entry(1).length = Entry(2).length
    /\ Entry(1).entropy_bits = Entry(2).entropy_bits
    /\ Entry(1).is_common = Entry(2).is_common
    /\ Entry(1).keyboard_pattern /\ ~Entry(2).keyboard_pattern
    /\ Entry(1).common_pattern /\ ~Entry(2).common_pattern
    /\ Entry(1).strength = "Medium"

\* The six recommendations in their order, each with its trigger.
RecOrder ==
    <<REC_LENGTH, REC_DIVERSITY, REC_COMMON, REC_KEYBOARD, REC_SEQUENCE, REC_SYMBOL>>

Trigger(e, r) ==
    CASE r = REC_LENGTH    -> e.length < 12
      [] r = REC_DIVERSITY -> e.entropy_bits < 4000
      [] r = REC_COMMON    -> e.is_common
      [] r = REC_KEYBOARD  -> e.keyboard_pattern
      [] r = REC_SEQUENCE  -> e.sequential
      [] r = REC_SYMBOL    -> ~e.has_symbol

\* C5: the recommendations of every analysis result hold each of the six
\* recommendations exactly when its trigger holds (length < 12; entropy < 40;
\* is_common; keyboard_pattern; sequential; not has_symbol), in that order,
\* none twice; the list is empty exactly when no trigger holds.
C5_Recommendations ==
    \A i \in Indices :
        LET e    == Entry(i)
            recs == e.recommendations
        IN  /\ recs = SelectSeq(RecOrder, LAMBDA r : Trigger(e, r))
            /\ \A r \in Range(RecOrder) : (r \in Range(recs)) <=> Trigger(e, r)
            /\ \A a \in 1..Len(recs) : \A b \in 1..Len(recs) :
                   a # b => recs[a] # recs[b]
            /\ (recs = <<>>) <=> (\A r \in Range(RecOrder) : ~Trigger(e, r))

\* One run holds a result with all six recommendations and one with none.
C5_Witness ==
    /\ Len(entries) = 2
    /\ Len(Entry(1).recommendations) = 6
    /\ Entry(2).recommendations = <<>>

\* C6: loading the wordlist never produces an error: with the source absent,
\* and with it present and unreadable, load_wordlist returns the empty set
\* and every password is scored with is_common false.
C6_LoadNeverFails ==
    /\ pc # "crashed"
    /\ (pc # "load" /\ source.k \in {"absent", "unreadable", "undecodable"}) =>
           /\ wordlist = {}
           /\ \A i \in Indices : ~Entry(i).is_common

\* C9: the character-class flags of every analysis result agree with the
\* classes estimate_entropy counted: has_lower, has_upper, has_digit and
\* has_symbol are true exactly for the classes that added 26, 26, 10 and 32
\* to the pool; the empty password has entropy 0 and all four flags false.
C9_FlagsAgreeWithPool ==
    \A i \in Indices :
        LET e == Entry(i)
        IN  /\ e.has_lower  <=> SearchLower(e.password)
            /\ e.has_upper  <=> SearchUpper(e.password)
            /\ e.has_digit  <=> SearchDigit(e.password)
            /\ e.has_symbol <=> SearchSymbol(e.password)
            /\ e.password = <<>> =>
                   /\ e.entropy_bits = 0
                   /\ ~e.has_lower /\ ~e.has_upper /\ ~e.has_digit /\ ~e.has_symbol

\* C10: the summary of the report gives as "Weak passwords" the number of
\* entries labelled Weak, as "Strong passwords" the number of entries
\* labelled Strong, and as total the number of entries.
C10_SummaryCounts ==
    report.k = "report" =>
        /\ report.total = Len(entries)
        /\ report.weak = Cardinality({i \in Indices : Entry(i).strength = "Weak"})
        /\ report.strong = Cardinality({i \in Indices : Entry(i).strength = "Strong"})

(***************************************************************************)
(* Properties of the functions on strings (SpecText).                      *)
(***************************************************************************)
\* The pool of the classes present: 26 for a lowercase letter a-z, 26 for an
\* uppercase letter A-Z, 10 for a digit 0-9, 32 for any other character.
ClassPool(s) ==
    (IF Range(s) \cap AsciiLower # {} THEN 26 ELSE 0)
    + (IF Range(s) \cap AsciiUpper # {} THEN 26 ELSE 0)
    + (IF Range(s) \cap AsciiDigit # {} THEN 10 ELSE 0)
    + (IF Range(s) \ (AsciiLower \cup AsciiUpper \cup AsciiDigit) # {} THEN 32 ELSE 0)

\* C7: estimate_entropy(s) is 0 for the empty string and otherwise
\* len(s) * log2(pool), the pool adding 26, 26, 10 and 32 over the classes
\* present (lowercase a-z, uppercase A-Z, digits 0-9, any other character);
\* it is never negative, strictly positive for every non-empty string of
\* letters, and len(s) * log2(26) for a non-empty string of a-z only.
C7_EntropyFormula ==
    fn = "estimate_entropy" =>
        LET s == input.s
        IN  /\ s = <<>> => output.v = 0
            /\ s # <<>> => output.v = Len(s) * Log2Micro(ClassPool(s))
            /\ output.v >= 0
            /\ (s # <<>> /\ \A i \in 1..Len(s) : islower(s[i]) \/ isupper(s[i]))
                   => output.v > 0
            /\ (s # <<>> /\ Range(s) \subseteq AsciiLower)
                   => output.v = Len(s) * 4700440

\* estimate_entropy has been applied to a string of all four classes.
C7_Witness ==
    /\ fn = "estimate_entropy"
    /\ input.s = <<"a","B","3","!">>
    /\ output.v = 4 * 6554589

\* A window: the characters i .. i+size-1 of the lower-cased password.
Window(pw, i, size) == SubSeq(lower(pw), i, i + size - 1)

\* w is a contiguous substring of ref.
SubstringOf(w, ref) ==
    \E at \in 1..(Len(ref) - Len(w) + 1) :
        \A k \in 1..Len(w) : ref[at + k - 1] = w[k]

ClaimSequential(pw) ==
    \E size \in {3, 4} : \E i \in 1..(Len(pw) - size + 1) :
        LET w == Window(pw, i, size)
        IN  \/ SubstringOf(w, LowerSeq) \/ SubstringOf(Reverse(w), LowerSeq)
            \/ SubstringOf(w, DigitSeq) \/ SubstringOf(Reverse(w), DigitSeq)

\* C8: is_sequential(pw) is true exactly when some window of 4 or of 3
\* characters of the lower-cased password, read forward or reversed, is a
\* contiguous substring of a..z or of 0..9; it is false for every password
\* shorter than 3 characters, true for "abcd1234" and false for "xk2p9q".
C8_SequentialWindows ==
    fn = "is_sequential" =>
        /\ output.v <=> ClaimSequential(input.s)
        /\ Len(input.s) < 3 => ~output.v
        /\ input.s = <<"a","b","c","d","1","2","3","4">> => output.v
        /\ input.s = <<"x","k","2","p","9","q">> => ~output.v

\* is_sequential has answered true for a password whose only run is a
\* descending one that lower-casing brings out.
C8_Witness ==
    /\ fn = "is_sequential"
    /\ input.s = <<"!", "C", "b", "a">>
    /\ output.v

(***************************************************************************)
(* Properties of seconds_to_readable (SpecReadable).                       *)
(***************************************************************************)
\* C2: seconds_to_readable(0) returns "0s" (every component zero renders as
\* exactly "0s"), and no input makes seconds_to_readable return an empty
\* string.
C2_ZeroRendersZeroSeconds ==
    fn = "seconds_to_readable" =>
        /\ (input.k = "num" /\ input.whole = 0 /\ input.frac = 0)
               => output = [k |-> "str", v |-> <<"0", "s">>]
        /\ output.k = "str" => output.v # <<>>

\* The seconds one unit letter stands for, and its place in the order.
UnitLetters == <<"y", "d", "h", "m", "s">>

UnitSeconds(u) ==
    CASE u = "y" -> 31536000
      [] u = "d" -> 86400
      [] u = "h" -> 3600
      [] u = "m" -> 60
      [] u = "s" -> 1

\* Reading a rendering back: tokens of a non-zero decimal number and a unit
\* letter, separated by single spaces, the units in decreasing order; the
\* seconds they add up to, or -1 when the string is not of that form.
\* `acc` is the number being read (-1: none), `last` the place of the last
\* unit read.
RECURSIVE ReadBack(_, _, _, _, _)
ReadBack(str, i, acc, last, total) ==
    IF i > Len(str) THEN (IF acc = -1 /\ last > 0 THEN total ELSE -1)
    ELSE LET c == str[i]
         IN  IF c \in AsciiDigit
             THEN IF acc = -1 /\ c = "0" THEN -1
                  ELSE ReadBack(str, i + 1,
                                (IF acc = -1 THEN 0 ELSE acc) * 10
                                    + (IndexOf(DigitSeq, c) - 1),
                                last, total)
             ELSE IF c \in Range(UnitLetters)
             THEN IF acc < 1 \/ IndexOf(UnitLetters, c) <= last THEN -1
                  ELSE IF i < Len(str) /\ str[i + 1] # " " THEN -1
                  ELSE ReadBack(str, i + 1, -1, IndexOf(UnitLetters, c),
                                total + acc * UnitSeconds(c))
             ELSE IF c = " "
             THEN IF acc # -1 \/ last = 0 \/ i = Len(str) THEN -1
                  ELSE ReadBack(str, i + 1, acc, last, total)
             ELSE -1

\* C4: for every finite seconds value >= 1, with s its truncated integer
\* value, seconds_to_readable renders years, days, hours, minutes, seconds
\* with s = years*31536000 + days*86400 + hours*3600 + minutes*60 + seconds,
\* days < 365, hours < 24, minutes < 60, seconds < 60: exactly the non-zero
\* components, each once, largest unit first, space-separated, suffixed
\* y/d/h/m/s (90 gives "1m 30s"); the rendering read back gives s.
C4_Decomposition ==
    (fn = "seconds_to_readable" /\ input.k = "num" /\ ~input.neg /\ input.whole >= 1) =>
        LET s       == input.whole
            years   == s \div 31536000
            days    == (s % 31536000) \div 86400
            hours   == (s % 86400) \div 3600
            minutes == (s % 3600) \div 60
            seconds == s % 60
            comps   == << <<years, "y">>, <<days, "d">>, <<hours, "h">>,
                          <<minutes, "m">>, <<seconds, "s">> >>
            shown   == SelectSeq(comps, LAMBDA c : c[1] # 0)
        IN  /\ s = years * 31536000 + days * 86400 + hours * 3600
                     + minutes * 60 + seconds
            /\ days < 365 /\ hours < 24 /\ minutes < 60 /\ seconds < 60
            /\ output.k = "str"
            /\ output.v = Join([i \in 1..Len(shown) |->
                                   Decimal(shown[i][1]) \o <<shown[i][2]>>])
            /\ ReadBack(output.v, 1, -1, 0, 0) = s
            /\ (s = 90 => output.v = <<"1", "m", " ", "3", "0", "s">>)

\* seconds_to_readable has rendered a value with a zero component between
\* two non-zero ones: 1 year, no days, 23 hours, no minutes, 59.5 seconds.
C4_Witness ==
    /\ fn = "seconds_to_readable"
    /\ input = [k |-> "num", neg |-> FALSE, whole |-> 31536000 + 23 * 3600 + 59,
                frac |-> 500]
    /\ output.v = <<"1", "y", " ", "2", "3", "h", " ", "5", "9", "s">>

(***************************************************************************)
(* Properties of estimate_crack_time_seconds (SpecCrack).                  *)
(***************************************************************************)
\* 2^entropy_bits overflows or exceeds the 1e308 ceiling.
TooLarge(bits) == bits.k = "inf" \/ bits.v > Log2Ceiling

\* a <= b on times.
TimeLeq(a, b) ==
    \/ a.k = "zero"
    \/ b.k = "inf"
    \/ a.k = "fin" /\ b.k = "fin" /\ a.lg <= b.lg

IsValue(t) == t.k \in {"zero", "fin", "inf"}

\* C3 as stated: estimate_crack_time_seconds returns a value for every
\* entropy_bits >= 0 and every rate and never raises; the value is infinite
\* when 2^entropy_bits overflows or exceeds the 1e308 ceiling or when
\* rate <= 0, and is otherwise the finite positive quotient
\* 2^entropy_bits / rate; a larger entropy at the same positive rate never
\* gives a smaller result.
C3_AsStated ==
    fn = "estimate_crack_time_seconds" =>
        LET bits == input.entropy_bits
            rate == input.rate
            t    == output.seconds
        IN  /\ IsValue(t) /\ IsValue(output.other)
            /\ (TooLarge(bits) \/ rate.k \in {"zero", "neg"}) => t = Inf
            /\ (~TooLarge(bits) /\ rate.k = "fin")
                   => t = [k |-> "fin", lg |-> bits.v - rate.lg]
            /\ (~TooLarge(bits) /\ rate.k = "inf") => t.k = "fin"
            /\ (rate.k \in {"fin", "inf"}
                    /\ (input.other_bits.k = "inf"
                        \/ (bits.k = "num" /\ bits.v <= input.other_bits.v)))
                   => TimeLeq(t, output.other)

\* C3 amended: estimate_crack_time_seconds returns a value and never raises;
\* the value is infinite when 2^entropy_bits overflows or exceeds the 1e308
\* ceiling or when the rate is zero, negative or nan; otherwise it is the
\* double-precision quotient 2^entropy_bits / rate: finite and positive when
\* the rate is finite and the quotient is below 2^1024, infinite when the
\* quotient is not (a rate below 1), and 0.0 for an infinite rate; a larger
\* entropy at the same positive rate never gives a smaller result.
C3_TotalAndQuotient ==
    fn = "estimate_crack_time_seconds" =>
        LET bits == input.entropy_bits
            rate == input.rate
            t    == output.seconds
        IN  /\ IsValue(t) /\ IsValue(output.other)
            /\ (TooLarge(bits) \/ rate.k \in {"zero", "neg", "nan"}) => t = Inf
            /\ (~TooLarge(bits) /\ rate.k = "fin" /\ bits.v - rate.lg < 1024 * 1000000)
                   => t = [k |-> "fin", lg |-> bits.v - rate.lg]
            /\ (~TooLarge(bits) /\ rate.k = "fin" /\ bits.v - rate.lg >= 1024 * 1000000)
                   => t = Inf
            /\ (~TooLarge(bits) /\ rate.k = "inf") => t = Zero
            /\ (rate.k \in {"fin", "inf"}
                    /\ (input.other_bits.k = "inf"
                        \/ (bits.k = "num" /\ bits.v <= input.other_bits.v)))
                   => TimeLeq(t, output.other)

\* The function has been applied where 2^entropy_bits is below the ceiling
\* and the quotient by a rate below 1 is not a double: 2^992 / 2^-900,
\* beside 2^1024 at the same rate, which overflows in math.pow.
C3_Witness ==
    /\ fn = "estimate_crack_time_seconds"
    /\ input.entropy_bits = [k |-> "num", v |-> 992 * 1000000]
    /\ input.other_bits = [k |-> "num", v |-> 1024 * 1000000]
    /\ input.rate = [k |-> "fin", lg |-> -900 * 1000000]
    /\ output.seconds = Inf
    /\ output.other = Inf

====
